---- MODULE Spec2Model ----
(***************************************************************************)
(* AutoHeal-GCP healing function (cloud-functions/healing_function/main.py) *)
(* as a state machine: alert deliveries processed by AutoHealEngine, the    *)
(* Compute Engine instance and the Cloud Run service they act on, and the   *)
(* long-running operations the remediation actions issue and wait for.      *)
(***************************************************************************)
EXTENDS Integers, Sequences, FiniteSets, TLC

\* ---------------------------------------------------------------- bounds
\* Number of alert deliveries (invocations of process_alert) in one run.
MaxDeliveries == 2

Deliveries == 1..MaxDeliveries

\* Invocations that run at the same time on one resource.
MaxConcurrent == 3

Concurrent == 1..MaxConcurrent

\* Longest condition display name, in fragments, given to classify_alert.
MaxFragments == 3

\* Scaling ceilings the Cloud Run service may start with (0 = not set).
InitCeilings == {0, 10, 48, 50}

\* ------------------------------------------------------ program constants
SCALE_INCREMENT == 5
SCALE_CAP == 50
DEFAULT_MAX_INSTANCES == 10

AlertTypes == {"high_cpu", "service_down", "memory_leak", "error_rate_spike", "unknown"}
ResourceTypes == {"gce_instance", "cloud_run_revision", "other"}

NoError == <<>>
NoCeiling == 0 - 1

\* The three shapes wait_for_operation distinguishes for a compute operation.
WaitShapes == {"zone_wait", "lro_result", "manual"}


VARIABLES
    pc,          \* pc[d]: position of delivery d inside process_alert
    alert,       \* alert[d]: classified alert (alert_type, resource type)
    readCeiling, \* readCeiling[d]: max_instance_count read by scale_cloud_run_service
    tmpl,        \* tmpl[d]: new_template built by restart_cloud_run_service
    calls,       \* calls[d]: infrastructure calls and waits issued, in order
    attempts,    \* attempts[d]: outcomes returned by the remediation actions
    result,      \* result[d]: the dict process_alert returns
    ops,         \* ops[d]: state of the operations delivery d issued
    vmStatus,    \* status of the Compute Engine instance
    service,     \* the Cloud Run service resource
    clock,       \* datetime.utcnow()
    waitShape,   \* which branch of wait_for_operation the compute objects select
    config,      \* which notification sinks the environment configures
    reports,     \* reports[d]: log entries and notifications delivery d produced
    input,       \* an alert payload handed to classify_alert / extract_resource_info
    output,      \* what the two functions made of input
    engine,      \* healing_engine: the attributes of the AutoHealEngine object
    payload,     \* payload[d]: alert_data of delivery d
    inbound,     \* what arrived at an entry point (HTTP request or cloud event)
    response     \* what the entry point returned

vars == <<pc, alert, readCeiling, tmpl, calls, attempts, result, ops, vmStatus,
          service, clock, waitShape, config, reports, input, output,
          engine, payload, inbound, response>>

\* ------------------------------------------------------------- dispatch
recovery_actions ==
    [high_cpu |-> "handle_high_cpu",
     service_down |-> "handle_service_down",
     memory_leak |-> "handle_memory_leak",
     error_rate_spike |-> "handle_error_rate_spike"]

AlertOnly(reason) ==
    [action |-> "alert_only", status |-> "none", error |-> NoError, reason |-> reason]

\* First step a handler takes for a resource type: the entry point of the
\* action it calls, or "alert_only" when it returns without calling one.
handle_high_cpu(resource_type) ==
    IF resource_type = "gce_instance" THEN "vm_stop"
    ELSE IF resource_type = "cloud_run_revision" THEN "scale_get"
    ELSE "alert_only"

handle_service_down(resource_type) ==
    IF resource_type = "gce_instance" THEN "vm_stop"
    ELSE IF resource_type = "cloud_run_revision" THEN "restart_get"
    ELSE "alert_only"

\* handle_memory_leak delegating to the wrong handler.
handle_memory_leak_as_high_cpu(resource_type) == handle_high_cpu(resource_type)

handle_memory_leak(resource_type) == handle_service_down(resource_type)

handle_error_rate_spike(resource_type) ==
    IF resource_type = "cloud_run_revision" THEN "scale_get"
    ELSE handle_service_down(resource_type)

\* An unknown alert handled as a service that is down.
handle_unknown_alert_restarting(resource_type) == handle_service_down(resource_type)

handle_unknown_alert(resource_type) == "alert_only"

CallHandler(handler, resource_type) ==
    CASE handler = "handle_high_cpu" -> handle_high_cpu(resource_type)
      [] handler = "handle_service_down" -> handle_service_down(resource_type)
      [] handler = "handle_memory_leak" -> handle_memory_leak(resource_type)
      [] handler = "handle_error_rate_spike" -> handle_error_rate_spike(resource_type)

\* The attributes AutoHealEngine.__init__ sets.
NewEngine == [recovery_actions |-> recovery_actions]

\* if alert_type in self.recovery_actions: ... else: handle_unknown_alert
Dispatch(alert_type, resource_type) ==
    IF alert_type \in DOMAIN engine.recovery_actions
    THEN CallHandler(engine.recovery_actions[alert_type], resource_type)
    ELSE handle_unknown_alert(resource_type)

\* An engine that, once it has handled an alert type, restarts for it the next time.
EngineRemembering(e, alert_type) ==
    IF alert_type \in DOMAIN e.recovery_actions
    THEN [e EXCEPT !.recovery_actions[alert_type] = "handle_service_down"]
    ELSE e

\* The engine after process_alert has run its dispatch: nothing is assigned.
EngineAfterDispatch(e, alert_type) == e

AlertOnlyReason(alert_type) ==
    IF alert_type \in DOMAIN engine.recovery_actions THEN "unsupported_resource_type"
    ELSE "unknown_alert_type"

\* Escalation that treats a skipped scale as final.
EscalateOnlyAfterFailed(scale_result) == scale_result.status = "failed"

\* What handle_error_rate_spike does with the outcome of its scale attempt.
EscalateAfterScale(scale_result) == scale_result.status # "success"


\* ------------------------------------------------------ remediation outcomes
Outcome(action, status, error) ==
    [action |-> action, status |-> status, error |-> error, reason |-> "none"]

restart_vm_success == Outcome("vm_restart", "success", NoError)
\* An except branch that reports the restart as done.
restart_vm_except_as_success(e) == Outcome("vm_restart", "success", e)
restart_vm_except(e) == Outcome("vm_restart", "failed", e)

scale_success == Outcome("cloud_run_scale", "success", NoError)
scale_skipped == Outcome("cloud_run_scale", "skipped", NoError)
scale_except(e) == Outcome("cloud_run_scale", "failed", e)

restart_service_success == Outcome("cloud_run_restart", "success", NoError)
\* An except branch that drops the error text.
restart_service_except_no_error(e) == Outcome("cloud_run_restart", "failed", NoError)
restart_service_except(e) == Outcome("cloud_run_restart", "failed", e)

\* ------------------------------------------------------- scaling arithmetic
Min(a, b) == IF a < b THEN a ELSE b

\* current_max_instances = service.template.scaling.max_instance_count or 10
CurrentMaxInstances(read) == IF read = 0 THEN DEFAULT_MAX_INSTANCES ELSE read

\* The increment without the cap.
NewMaxInstancesUncapped(current) == current + SCALE_INCREMENT

\* A scale that goes to the cap in one step.
NewMaxInstancesStraightToCap(current) == SCALE_CAP

\* new_max_instances = min(current_max_instances + 5, 50)
NewMaxInstances(current) == Min(current + SCALE_INCREMENT, SCALE_CAP)

\* The comparison with >= in place of >.
ShouldScaleAtOrAbove(current) == NewMaxInstances(current) >= current

ShouldScale(current) == NewMaxInstances(current) > current

\* ---------------------------------------------------- Cloud Run service API
\* The Service() object scale_cloud_run_service sends: only the ceiling is set.
ScaleRequest(new_max) ==
    [template |-> [max_instance_count |-> new_max, env |-> <<>>], traffic |-> <<>>]

\* The Service() object restart_cloud_run_service sends: the template it read.
RestartRequest(new_template) == [template |-> new_template, traffic |-> <<>>]

\* update_service applies the fields of the request that update_mask names.
UpdateService(svc, request, update_mask) ==
    IF update_mask = "template"
    THEN [svc EXCEPT !.template = request.template]
    ELSE IF update_mask = "template.scaling.max_instance_count"
    THEN [svc EXCEPT !.template.max_instance_count = request.template.max_instance_count]
    ELSE svc

HasRestartTimestamp(env) == \E k \in 1..Len(env) : env[k].name = "RESTART_TIMESTAMP"

FirstRestartTimestamp(env) ==
    CHOOSE k \in 1..Len(env) :
        /\ env[k].name = "RESTART_TIMESTAMP"
        /\ \A j \in 1..(k - 1) : env[j].name # "RESTART_TIMESTAMP"

\* A restart that adds a RESTART_TIMESTAMP variable each time.
SetRestartTimestampAppending(env, now) ==
    Append(env, [name |-> "RESTART_TIMESTAMP", value |-> now])

\* The add-or-update of the RESTART_TIMESTAMP variable on containers[0].env.
SetRestartTimestamp(env, now) ==
    IF HasRestartTimestamp(env)
    THEN [env EXCEPT ![FirstRestartTimestamp(env)].value = now]
    ELSE Append(env, [name |-> "RESTART_TIMESTAMP", value |-> now])

\* ------------------------------------------------------- wait_for_operation
\* The results wait_for_operation can have for an operation in state op:
\* NoError when it returns normally, otherwise the exception it re-raises.
wait_for_operation(operation_type, shape, op) ==
    IF shape = "zone_wait"
    THEN \* client.wait(request=wait_request); its return value is not looked at
         {NoError, <<operation_type, "wait_error">>}
    ELSE IF shape = "lro_result"
    THEN \* operation.result(timeout=timeout)
         IF op = "DONE" THEN {NoError}
         ELSE IF op = "ERROR" THEN {<<operation_type, "operation_error">>}
         ELSE {<<operation_type, "timed_out">>}
    ELSE \* manual fallback: sleeps until the timeout, then raises
         {<<operation_type, "timed_out">>}

\* operation.result() with no timeout: returns once the operation is over.
OperationResult(operation_type, op) ==
    IF op = "DONE" THEN {NoError}
    ELSE IF op = "ERROR" THEN {<<operation_type, "operation_error">>}
    ELSE {}

\* ------------------------------------------------------------ alert payloads
\* A Python value that is not there (key absent) or is None.
PyNone == "<None>"

\* An alert payload (the JSON object of the incident), field by field. Each
\* member has a kind: "absent" (no such key), "null", "dict", "str", or another
\* JSON type ("scalar", "number"); the value fields count only for "str".
Payload(incident, cdn_kind, cdn, resource, type_kind, type, labels, instance_name_kind, instance_name, service_name_kind, service_name) ==
    [incident |-> incident, cdn_kind |-> cdn_kind, cdn |-> cdn,
     resource |-> resource, type_kind |-> type_kind, type |-> type, labels |-> labels,
     instance_name_kind |-> instance_name_kind, instance_name |-> instance_name,
     service_name_kind |-> service_name_kind, service_name |-> service_name]

NoInput == Payload("none", "absent", <<>>, "absent", "absent", "", "absent",
                   "absent", "", "absent", "")

\* A function's result: the value it returns, or the exception it raises.
Returns(v) == [exc |-> NoError, value |-> v]
Raises(e) == [exc |-> e, value |-> PyNone]

\* d.get(key, default) on a dict whose member key has this kind and value.
DictGet(kind, value, default) ==
    IF kind = "absent" THEN default
    ELSE IF kind = "null" THEN PyNone
    ELSE value

\* str.lower(), character by character.
UpperToLower ==
    ("C" :> "c") @@ ("P" :> "p") @@ ("U" :> "u") @@ ("X" :> "x") @@ ("M" :> "m")
    @@ ("E" :> "e") @@ ("R" :> "r") @@ ("O" :> "o") @@ ("A" :> "a") @@ ("H" :> "h")

LowerChar(c) == IF c \in DOMAIN UpperToLower THEN UpperToLower[c] ELSE c

\* A lower() that leaves the text as it is.
LowerIdentity(text) == text

Lower(text) == [k \in 1..Len(text) |-> LowerChar(text[k])]

\* keyword in text
Contains(text, keyword) ==
    \E k \in 1..(Len(text) - Len(keyword) + 1) :
        SubSeq(text, k, k + Len(keyword) - 1) = keyword

KW_CPU == <<"c", "p", "u">>
KW_ERROR == <<"e", "r", "r", "o", "r">>
KW_5XX == <<"5", "x", "x">>
KW_MEMORY == <<"m", "e", "m", "o", "r", "y">>
KW_UPTIME == <<"u", "p", "t", "i", "m", "e">>
KW_AVAILABILITY == <<"a", "v", "a", "i", "l", "a", "b", "i", "l", "i", "t", "y">>

\* The if/elif chain of classify_alert on the lower-cased name.
ClassifyName(condition_name) ==
    IF Contains(condition_name, KW_CPU) THEN "high_cpu"
    ELSE IF Contains(condition_name, KW_ERROR) \/ Contains(condition_name, KW_5XX)
    THEN "error_rate_spike"
    ELSE IF Contains(condition_name, KW_MEMORY) THEN "memory_leak"
    ELSE IF Contains(condition_name, KW_UPTIME)
            \/ Contains(condition_name, KW_AVAILABILITY)
    THEN "service_down"
    ELSE "unknown"

AttributeError(where) == <<where, "AttributeError">>

\* incident = alert_data.get('incident', {}): the kind of object it is.
IncidentOf(p) == IF p.incident = "absent" THEN "dict" ELSE p.incident

\* Members of the incident; the default {} has none.
IncidentMemberKind(p, kind) == IF p.incident = "absent" THEN "absent" ELSE kind

classify_alert(p) ==
    IF IncidentOf(p) # "dict"
    THEN Raises(AttributeError("incident.get"))
    ELSE IF IncidentMemberKind(p, p.cdn_kind) \in {"null", "number"}
    THEN Raises(AttributeError("condition_display_name.lower"))
    ELSE Returns(ClassifyName(Lower(
            IF IncidentMemberKind(p, p.cdn_kind) = "absent" THEN <<>> ELSE p.cdn)))

\* resource = incident.get('resource', {}): the kind of object it is.
ResourceOf(p) ==
    IF IncidentMemberKind(p, p.resource) = "absent" THEN "dict" ELSE p.resource

ResourceMemberKind(p, kind) ==
    IF IncidentMemberKind(p, p.resource) = "absent" THEN "absent" ELSE kind

\* resource.get('labels', {}): the kind of object it is.
LabelsOf(p) ==
    IF ResourceMemberKind(p, p.labels) = "absent" THEN "dict" ELSE p.labels

LabelKind(p, kind) ==
    IF ResourceMemberKind(p, p.labels) = "absent" THEN "absent" ELSE kind

Truthy(v) == v # PyNone /\ v # ""

\* labels.get('instance_name') or labels.get('service_name', 'unknown')
ResourceName(p) ==
    LET instance_name == DictGet(LabelKind(p, p.instance_name_kind), p.instance_name, PyNone)
    IN  IF Truthy(instance_name) THEN instance_name
        ELSE DictGet(LabelKind(p, p.service_name_kind), p.service_name, "unknown")

extract_resource_info(p) ==
    IF IncidentOf(p) # "dict"
    THEN Raises(AttributeError("incident.get"))
    ELSE IF ResourceOf(p) # "dict"
    THEN Raises(AttributeError("resource.get"))
    ELSE IF LabelsOf(p) # "dict"
    THEN Raises(AttributeError("labels.get"))
    ELSE Returns([type |-> DictGet(ResourceMemberKind(p, p.type_kind), p.type, "unknown"),
                  labels |-> LabelsOf(p),
                  name |-> ResourceName(p)])

\* --------------------------------------------------- payloads that are tried
\* Pieces of condition display names: the keywords in several letter cases,
\* pieces that make a keyword only when put together, and text with no keyword.
Fragments ==
    {<<"c", "p", "u">>,
     <<"C", "P", "U">>,
     <<"C", "p">>,
     <<"U">>,
     <<"E", "r", "r", "o", "r">>,
     <<"5", "x", "x">>,
     <<"5", "X", "X">>,
     <<"M", "e", "m", "o", "r", "y">>,
     <<"U", "p", "t", "i", "m", "e">>,
     <<"A", "v", "a", "i", "l", "a", "b", "i", "l", "i", "t", "y">>,
     <<" ">>,
     <<"l", "o", "a", "d">>}

RECURSIVE Join(_)
Join(pieces) == IF pieces = <<>> THEN <<>> ELSE Head(pieces) \o Join(Tail(pieces))

ConditionNames ==
    { Join(pieces) : pieces \in UNION { [1..n -> Fragments] : n \in 0..MaxFragments } }

\* Payloads with every member in place except those under test.
NamedAlert(cdn_kind, cdn) ==
    Payload("dict", cdn_kind, cdn, "dict", "str", "gce_instance", "dict",
            "str", "vm-1", "absent", "")

NoIncident(incident) ==
    Payload(incident, "absent", <<>>, "absent", "absent", "", "absent",
            "absent", "", "absent", "")

ClassifyPayloads ==
    { NamedAlert("str", n) : n \in ConditionNames }
    \cup { NamedAlert(k, <<>>) : k \in {"absent", "null", "number"} }
    \cup { NoIncident(i) : i \in {"absent", "null", "scalar"} }

TypeMembers == {<<"absent", "">>, <<"null", "">>} \cup { <<"str", t>> : t \in ResourceTypes }
InstanceNameMembers == {<<"absent", "">>, <<"null", "">>, <<"str", "">>, <<"str", "vm-1">>}
ServiceNameMembers == {<<"absent", "">>, <<"null", "">>, <<"str", "">>, <<"str", "svc-1">>}

ExtractPayloads ==
    { NoIncident(i) : i \in {"absent", "null", "scalar"} }
    \cup { Payload("dict", "str", <<"C", "P", "U">>, r, "absent", "", "absent",
                   "absent", "", "absent", "") : r \in {"absent", "null"} }
    \cup { Payload("dict", "str", <<"C", "P", "U">>, "dict", t[1], t[2], l,
                   "absent", "", "absent", "") :
           t \in TypeMembers, l \in {"absent", "null"} }
    \cup { Payload("dict", "str", <<"C", "P", "U">>, "dict", t[1], t[2], "dict",
                   i[1], i[2], sn[1], sn[2]) :
           t \in TypeMembers, i \in InstanceNameMembers, sn \in ServiceNameMembers }

Payloads == ClassifyPayloads \cup ExtractPayloads

\* One condition display name for each category.
CategoryName ==
    ("high_cpu" :> <<"H", "i", "g", "h", " ", "C", "P", "U">>)
    @@ ("error_rate_spike" :> <<"5", "X", "X", " ", "E", "r", "r", "o", "r", "s">>)
    @@ ("memory_leak" :> <<"M", "e", "m", "o", "r", "y">>)
    @@ ("service_down" :> <<"U", "p", "t", "i", "m", "e">>)
    @@ ("unknown" :> <<"l", "o", "a", "d">>)

\* Alerts that are delivered: one of each category for each kind of resource,
\* an incident that is null, and a resource whose labels are null.
Alerts ==
    { Payload("dict", "str", CategoryName[at], "dict", "str", rt, "dict",
              IF rt = "gce_instance" THEN "str" ELSE "absent",
              IF rt = "gce_instance" THEN "vm-1" ELSE "",
              IF rt = "gce_instance" THEN "absent" ELSE "str",
              IF rt = "gce_instance" THEN "" ELSE "svc-1") :
      at \in AlertTypes, rt \in ResourceTypes }
    \cup { NoIncident("null") }
    \cup { Payload("dict", "str", CategoryName["high_cpu"], "dict", "str", "gce_instance",
                   "null", "absent", "", "absent", "") }

\* ------------------------------------------------------------------ state
NoOps == [stop |-> "none", start |-> "none", scale |-> "none", restart |-> "none"]
NoAlert == [alert_type |-> "none", type |-> "none"]
NoResult == [status |-> "none", alert_type |-> "none", resource |-> "none",
             action_taken |-> "none", error |-> NoError, timestamp |-> 0]
NoTemplate == [max_instance_count |-> NoCeiling, env |-> <<>>]

\* Module configuration read from the environment: is the variable set (truthy)?
Configs == [SLACK_WEBHOOK_URL : BOOLEAN, SENDGRID_API_KEY : BOOLEAN,
            NOTIFICATION_EMAIL : BOOLEAN]

DefaultConfig == [SLACK_WEBHOOK_URL |-> FALSE, SENDGRID_API_KEY |-> FALSE,
                  NOTIFICATION_EMAIL |-> TRUE]

\* What arrives at an entry point. entry is "direct" for a call of process_alert
\* itself; method and json_content_type are those of an HTTP request; body is
\* the kind of body or of event data; alert is the alert the body carries.
Request(entry, method, json_content_type, body, carried) ==
    [entry |-> entry, method |-> method, json_content_type |-> json_content_type,
     body |-> body, alert |-> carried]

NoRequest == Request("direct", "none", FALSE, "none", NoInput)

\* What an entry point returns: the HTTP status code (NoCode where there is
\* none), and the 'status' and 'error' members of the body.
Response(code, status, error) == [code |-> code, status |-> status, error |-> error]

NoCode == 0
NoResponse == Response(NoCode, "none", NoError)

HttpMethods == {"GET", "POST", "PUT", "DELETE"}

\* HTTP requests: with or without a JSON content type; with no body, a body
\* that is no JSON, a JSON body that is empty ({}), or an alert.
HttpRequests ==
    { Request("http", m, ct, b, NoInput) :
        m \in HttpMethods, ct \in BOOLEAN, b \in {"missing", "unparseable", "empty_json"} }
    \cup { Request("http", m, ct, "json", p) :
             m \in HttpMethods, ct \in BOOLEAN, p \in Alerts }

\* Cloud events: data that is None; a 'data' member that is no base64, no
\* UTF-8 or no JSON; a 'data' member that encodes an alert; an alert as it is.
EventRequests ==
    { Request("event", "none", FALSE, b, NoInput) :
        b \in {"no_event_data", "bad_base64", "bad_utf8", "bad_json"} }
    \cup { Request("event", "none", FALSE, b, p) :
             b \in {"base64_json", "structured"}, p \in Alerts }

Requests == HttpRequests \cup EventRequests

\* The delivery an entry point starts.
EntryDelivery == 1

NotCalled == Raises(<<"not_called">>)
NoOutput == [classify |-> NotCalled, extract |-> NotCalled]

InitEnvs == { <<[name |-> "APP_MODE", value |-> 0]>> }

InitTraffic == <<"latest">>

\* The Cloud Run service as get_service returns it.
Service(max_instance_count, env) ==
    [template |-> [max_instance_count |-> max_instance_count, env |-> env],
     traffic |-> InitTraffic]

InitServices == { Service(c, e) : c \in InitCeilings, e \in InitEnvs }

\* Environments with at most one RESTART_TIMESTAMP entry.
RestartEnvs ==
    { <<>>,
      <<[name |-> "APP_MODE", value |-> 0]>>,
      <<[name |-> "APP_MODE", value |-> 0], [name |-> "RESTART_TIMESTAMP", value |-> 0]>>,
      <<[name |-> "RESTART_TIMESTAMP", value |-> 0], [name |-> "APP_MODE", value |-> 0]>> }

RestartServices == { Service(DEFAULT_MAX_INSTANCES, e) : e \in RestartEnvs }

\* The state after module import: healing_engine constructed, no alert delivered
\* yet. Deliveries outside arriving never arrive in the run; alerts are the
\* payloads in flight (NoInput: any alert).
InitOver(all, arriving, alerts, configs, inputs, requests, services, shapes) ==
    /\ pc = [d \in all |-> IF d \in arriving THEN "idle" ELSE "absent"]
    /\ alert = [d \in all |-> NoAlert]
    /\ readCeiling = [d \in all |-> NoCeiling]
    /\ tmpl = [d \in all |-> NoTemplate]
    /\ calls = [d \in all |-> <<>>]
    /\ attempts = [d \in all |-> <<>>]
    /\ result = [d \in all |-> NoResult]
    /\ ops = [d \in all |-> NoOps]
    /\ vmStatus = "RUNNING"
    /\ service \in services
    /\ clock = 1
    /\ waitShape \in shapes
    /\ config \in configs
    /\ reports = [d \in all |-> <<>>]
    /\ input \in inputs
    /\ output = NoOutput
    /\ engine = NewEngine
    /\ payload \in [all -> alerts]
    /\ inbound \in requests
    /\ response = NoResponse

\* The deliveries of the model, each with any alert.
InitWith(arriving, configs, inputs, requests, services, shapes) ==
    InitOver(Deliveries, arriving, {NoInput}, configs, inputs, requests, services, shapes)

\* No sink configured: SLACK_WEBHOOK_URL and SENDGRID_API_KEY default to None.
InitFor(arriving) ==
    InitWith(arriving, {DefaultConfig}, {NoInput}, {NoRequest}, InitServices, WaitShapes)

Init == InitFor(Deliveries)

\* A run with a single alert delivery.
InitSolo == InitFor({1})

\* A single alert delivery under every configuration of the notification sinks.
InitReporting == InitWith({1}, Configs, {NoInput}, {NoRequest}, InitServices, WaitShapes)

\* No delivery: one payload handed to classify_alert and extract_resource_info.
InitPure == InitWith({}, {DefaultConfig}, Payloads, {NoRequest}, InitServices, WaitShapes)

\* No delivery but the one an entry point starts for the request it received.
InitEntry == InitWith({}, {DefaultConfig}, {NoInput}, Requests, InitServices, WaitShapes)

\* Every delivery arrives; the service starts with no RESTART_TIMESTAMP or with
\* one, in either place among its variables.
InitRestarts ==
    InitWith(Deliveries, {DefaultConfig}, {NoInput}, {NoRequest}, RestartServices,
             {"lro_result"})

Call(name, by, error, ceiling) ==
    [call |-> name, by |-> by, error |-> error, ceiling |-> ceiling]

\* A failed outcome that ends the delivery with nothing logged or notified.
AfterActionUnreportedFailure(d, outcome) ==
    IF outcome.status = "failed" THEN "done" ELSE "report"

\* A handler that tries the Cloud Run restart again when it failed.
AfterActionRetryingFailedRestart(d, outcome) ==
    IF outcome.action = "cloud_run_restart" /\ outcome.status = "failed"
    THEN "restart_get"
    ELSE "report"

\* Where the handler goes once an action has returned outcome.
AfterAction(d, outcome) ==
    IF /\ outcome.action = "cloud_run_scale"
       /\ alert[d].alert_type = "error_rate_spike"
       /\ EscalateAfterScale(outcome)
    THEN "restart_get"
    ELSE "report"

Return(d, outcome) ==
    /\ attempts' = [attempts EXCEPT ![d] = Append(@, outcome)]
    /\ pc' = [pc EXCEPT ![d] = AfterAction(d, outcome)]

Goto(d, label) ==
    /\ pc' = [pc EXCEPT ![d] = label]
    /\ UNCHANGED attempts

Log(d, c) == calls' = [calls EXCEPT ![d] = Append(@, c)]

\* ------------------------------------------------------------ process_alert
\* The dict returned from the try block.
process_alert_success(alert_type, resource, action_taken, now) ==
    [status |-> "success", alert_type |-> alert_type, resource |-> resource,
     action_taken |-> action_taken, error |-> NoError, timestamp |-> now]

\* An except block that lets the exception go: nothing is returned.
process_alert_reraising(e, now) == NoResult

\* The dict returned from the except block.
process_alert_except(e, now) ==
    [status |-> "error", alert_type |-> "none", resource |-> "none",
     action_taken |-> "none", error |-> e, timestamp |-> now]

\* The exception that leaves classification and extraction, if any.
FirstException(alert_type, resource_info) ==
    IF alert_type.exc # NoError THEN alert_type.exc ELSE resource_info.exc

\* The alert_data process_alert may be called with: the alert an entry point
\* passed on for this delivery, any alert when process_alert is called directly.
AlertsFor(d) == IF payload[d] = NoInput THEN Alerts ELSE {payload[d]}

\* classify + extract + dispatch to the handler, up to its first action.
Deliver(d) ==
    /\ pc[d] = "idle"
    /\ \E p \in AlertsFor(d) :
          LET alert_type == classify_alert(p)
              resource_info == extract_resource_info(p)
          IN  /\ payload' = [payload EXCEPT ![d] = p]
              /\ IF FirstException(alert_type, resource_info) # NoError
                 THEN /\ result' = [result EXCEPT ![d] =
                            process_alert_except(FirstException(alert_type, resource_info),
                                                 clock)]
                      /\ pc' = [pc EXCEPT ![d] = "done"]
                      /\ UNCHANGED <<alert, attempts, engine>>
                 ELSE LET at == alert_type.value
                          rt == resource_info.value.type
                      IN  /\ alert' = [alert EXCEPT ![d] = [alert_type |-> at, type |-> rt]]
                          /\ IF Dispatch(at, rt) = "alert_only"
                             THEN /\ attempts' = [attempts EXCEPT ![d] =
                                        <<AlertOnly(AlertOnlyReason(at))>>]
                                  /\ pc' = [pc EXCEPT ![d] = "report"]
                             ELSE Goto(d, Dispatch(at, rt))
                          /\ engine' = EngineAfterDispatch(engine, at)
                          /\ UNCHANGED result
    /\ UNCHANGED <<readCeiling, tmpl, calls, ops, vmStatus, service, clock,
                   waitShape, config, reports, input, output, inbound, response>>

\* The outcome that reached process_alert first.
FirstOutcome(outcomes) == outcomes[1]

\* result in process_alert: what the handler returned.
FinalOutcome(outcomes) == outcomes[Len(outcomes)]

ActionTaken(outcomes) == FinalOutcome(outcomes).action

\* 'severity' of the log entry
LogSeverity(outcome) == IF outcome.status = "success" THEN "INFO" ELSE "ERROR"

\* status_emoji of the notification message
StatusEmoji(outcome) == IF outcome.status = "success" THEN "check_mark" ELSE "cross_mark"

\* str.title() of the words a status can be
Title == ("success" :> "Success") @@ ("failed" :> "Failed") @@ ("skipped" :> "Skipped")
         @@ ("Unknown" :> "Unknown")

\* result.get('status', 'Unknown').title()
StatusShown(outcome) ==
    Title[IF outcome.status = "none" THEN "Unknown" ELSE outcome.status]

LogEntry(outcome) ==
    [event |-> "log", action |-> outcome.action, status |-> outcome.status,
     severity |-> LogSeverity(outcome)]

Notification(outcome, slack, email) ==
    [event |-> "notify", action |-> outcome.action, status_emoji |-> StatusEmoji(outcome),
     status |-> StatusShown(outcome), slack |-> slack, email |-> email]

\* What a sink's call can come to: a sink that is not configured is not called;
\* a call that fails is logged and nothing more.
SinkOutcomes(configured) == IF configured THEN {"sent", "failed"} ELSE {"not_called"}

\* An email that is given up once the Slack call has failed.
EmailSkippedAfterSlackFailure(configured, slack) ==
    IF slack = "failed" THEN {"not_called"} ELSE SinkOutcomes(configured)

\* What the email call can come to after the Slack sink had its turn:
\* send_slack_notification lets no exception out, so the email is tried.
EmailAfterSlack(configured, slack) == SinkOutcomes(configured)

\* self.log_healing_action(alert_type, resource_info, result)
LogHealingAction(d) ==
    /\ pc[d] = "report"
    /\ reports' = [reports EXCEPT ![d] = Append(@, LogEntry(FinalOutcome(attempts[d])))]
    /\ pc' = [pc EXCEPT ![d] = "notify"]
    /\ UNCHANGED <<alert, readCeiling, tmpl, calls, attempts, result, ops, vmStatus,
                   service, clock, waitShape, config, input, output,
                   engine, payload, inbound, response>>

\* A failing sink whose exception leaves send_notification and process_alert's try.
ReportRaisingOnSinkFailure(d) ==
    /\ pc[d] = "notify"
    /\ \E slack \in SinkOutcomes(config.SLACK_WEBHOOK_URL) :
       \E email \in EmailAfterSlack(config.SENDGRID_API_KEY /\ config.NOTIFICATION_EMAIL,
                                    slack) :
          /\ reports' = [reports EXCEPT ![d] =
                Append(@, Notification(FinalOutcome(attempts[d]), slack, email))]
          /\ result' = [result EXCEPT ![d] =
                IF "failed" \in {slack, email}
                THEN process_alert_except(<<"send_notification", "RequestException">>, clock)
                ELSE process_alert_success(alert[d].alert_type, alert[d].type,
                                           ActionTaken(attempts[d]), clock)]
    /\ pc' = [pc EXCEPT ![d] = "done"]
    /\ UNCHANGED <<alert, readCeiling, tmpl, calls, attempts, ops, vmStatus, service,
                   clock, waitShape, config, input, output,
                   engine, payload, inbound, response>>

\* A return that passes the failure of the remediation on as an error result.
ReportDegradedOnFailure(d) ==
    /\ pc[d] = "notify"
    /\ \E slack \in SinkOutcomes(config.SLACK_WEBHOOK_URL) :
       \E email \in EmailAfterSlack(config.SENDGRID_API_KEY /\ config.NOTIFICATION_EMAIL,
                                    slack) :
          reports' = [reports EXCEPT ![d] =
              Append(@, Notification(FinalOutcome(attempts[d]), slack, email))]
    /\ result' = [result EXCEPT ![d] =
          IF FinalOutcome(attempts[d]).status = "failed"
          THEN process_alert_except(FinalOutcome(attempts[d]).error, clock)
          ELSE process_alert_success(alert[d].alert_type, alert[d].type,
                                     ActionTaken(attempts[d]), clock)]
    /\ pc' = [pc EXCEPT ![d] = "done"]
    /\ UNCHANGED <<alert, readCeiling, tmpl, calls, attempts, ops, vmStatus, service,
                   clock, waitShape, config, input, output,
                   engine, payload, inbound, response>>

\* self.send_notification(alert_type, resource_info, result) and the returned dict.
Report(d) ==
    /\ pc[d] = "notify"
    /\ \E slack \in SinkOutcomes(config.SLACK_WEBHOOK_URL) :
       \E email \in EmailAfterSlack(config.SENDGRID_API_KEY /\ config.NOTIFICATION_EMAIL,
                                    slack) :
          reports' = [reports EXCEPT ![d] =
              Append(@, Notification(FinalOutcome(attempts[d]), slack, email))]
    /\ result' = [result EXCEPT ![d] =
          process_alert_success(alert[d].alert_type, alert[d].type,
                                ActionTaken(attempts[d]), clock)]
    /\ pc' = [pc EXCEPT ![d] = "done"]
    /\ UNCHANGED <<alert, readCeiling, tmpl, calls, attempts, ops, vmStatus, service,
                   clock, waitShape, config, input, output,
                   engine, payload, inbound, response>>

\* ------------------------------------------- the two functions on their own
ClassifyAlert ==
    /\ output.classify.exc = NotCalled.exc
    /\ output' = [output EXCEPT !.classify = classify_alert(input)]
    /\ UNCHANGED <<pc, alert, readCeiling, tmpl, calls, attempts, result, ops, vmStatus,
                   service, clock, waitShape, config, reports, input,
                   engine, payload, inbound, response>>

ExtractResourceInfo ==
    /\ output.extract.exc = NotCalled.exc
    /\ output' = [output EXCEPT !.extract = extract_resource_info(input)]
    /\ UNCHANGED <<pc, alert, readCeiling, tmpl, calls, attempts, result, ops, vmStatus,
                   service, clock, waitShape, config, reports, input,
                   engine, payload, inbound, response>>


\* ------------------------------------------------------------ entry points
\* A handler that sends a GET down the path of a POST.
HttpBranchGetAsPost(method) == IF method \in {"GET", "POST"} THEN "process" ELSE "not_allowed"

\* The if/elif/else on request.method in autoheal_http.
HttpBranch(method) ==
    IF method = "GET" THEN "health"
    ELSE IF method = "POST" THEN "process"
    ELSE "not_allowed"

\* request.get_json(): "raises", or the kind of value it returns. Without a JSON
\* content type it returns None or raises, depending on the version of the
\* framework; with one, a body that is missing or no JSON makes it raise.
get_json(req) ==
    IF ~req.json_content_type THEN {"none", "raises"}
    ELSE IF req.body \in {"missing", "unparseable"} THEN {"raises"}
    ELSE IF req.body = "empty_json" THEN {"falsy"}
    ELSE {"value"}

\* A decoding that takes data it cannot parse for an alert with nothing in it.
DecodeEventLenient(req) ==
    IF req.body \in {"base64_json", "structured"} THEN Returns(req.alert)
    ELSE Returns(NoIncident("absent"))

\* The alert_data autoheal_function gets out of the cloud event:
\* base64.b64decode(...).decode('utf-8') and json.loads when there is a 'data'
\* member, cloud_event.data itself when there is none.
DecodeEvent(req) ==
    IF req.body = "no_event_data" THEN Raises(<<"cloud_event.data", "TypeError">>)
    ELSE IF req.body = "bad_base64" THEN Raises(<<"b64decode", "binascii.Error">>)
    ELSE IF req.body = "bad_utf8" THEN Raises(<<"decode", "UnicodeDecodeError">>)
    ELSE IF req.body = "bad_json" THEN Raises(<<"json.loads", "JSONDecodeError">>)
    ELSE Returns(req.alert)

\* healing_engine.process_alert(alert_data) is called.
CallProcessAlert(alert_data) ==
    /\ pc' = [pc EXCEPT ![EntryDelivery] = "idle"]
    /\ payload' = [payload EXCEPT ![EntryDelivery] = alert_data]
    /\ UNCHANGED response

\* The entry point returns without having called process_alert.
ReturnAtOnce(r) ==
    /\ response' = r
    /\ UNCHANGED <<pc, payload>>

\* autoheal_http up to its return or its call of process_alert
AutohealHttp ==
    /\ inbound.entry = "http"
    /\ response = NoResponse
    /\ pc[EntryDelivery] = "absent"
    /\ IF HttpBranch(inbound.method) = "health"
       THEN ReturnAtOnce(Response(200, "healthy", NoError))
       ELSE IF HttpBranch(inbound.method) = "process"
       THEN \E alert_data \in get_json(inbound) :
               IF alert_data = "raises"
               THEN ReturnAtOnce(Response(500, "error", <<"get_json", "HTTPException">>))
               ELSE IF alert_data \in {"none", "falsy"}
               THEN ReturnAtOnce(Response(400, "none", <<"No JSON data provided">>))
               ELSE CallProcessAlert(inbound.alert)
       ELSE ReturnAtOnce(Response(405, "none", <<"Method not allowed">>))
    /\ UNCHANGED <<alert, readCeiling, tmpl, calls, attempts, result, ops, vmStatus,
                   service, clock, waitShape, config, reports, input, output, engine,
                   inbound>>

\* return result in autoheal_http
HttpReturn ==
    /\ inbound.entry = "http"
    /\ response = NoResponse
    /\ pc[EntryDelivery] = "done"
    /\ response' = Response(200, result[EntryDelivery].status, result[EntryDelivery].error)
    /\ UNCHANGED <<pc, alert, readCeiling, tmpl, calls, attempts, result, ops, vmStatus,
                   service, clock, waitShape, config, reports, input, output, engine,
                   payload, inbound>>

\* autoheal_function up to its return or its call of process_alert
AutohealFunction ==
    /\ inbound.entry = "event"
    /\ response = NoResponse
    /\ pc[EntryDelivery] = "absent"
    /\ IF DecodeEvent(inbound).exc # NoError
       THEN ReturnAtOnce(Response(NoCode, "error", DecodeEvent(inbound).exc))
       ELSE CallProcessAlert(DecodeEvent(inbound).value)
    /\ UNCHANGED <<alert, readCeiling, tmpl, calls, attempts, result, ops, vmStatus,
                   service, clock, waitShape, config, reports, input, output, engine,
                   inbound>>

\* return result in autoheal_function
FunctionReturn ==
    /\ inbound.entry = "event"
    /\ response = NoResponse
    /\ pc[EntryDelivery] = "done"
    /\ response' = Response(NoCode, result[EntryDelivery].status,
                            result[EntryDelivery].error)
    /\ UNCHANGED <<pc, alert, readCeiling, tmpl, calls, attempts, result, ops, vmStatus,
                   service, clock, waitShape, config, reports, input, output, engine,
                   payload, inbound>>

\* ------------------------------------------------------- restart_vm_instance
\* compute_client.stop(request=stop_request)
VmStop(d) ==
    /\ pc[d] = "vm_stop"
    /\ \/ /\ Log(d, Call("stop", "vm_restart", NoError, NoCeiling))
          /\ ops' = [ops EXCEPT ![d].stop = "RUNNING"]
          /\ Goto(d, "vm_wait_stop")
       \/ /\ Log(d, Call("stop", "vm_restart", <<"stop", "call_error">>, NoCeiling))
          /\ Return(d, restart_vm_except(<<"stop", "call_error">>))
          /\ UNCHANGED ops
    /\ UNCHANGED <<alert, readCeiling, tmpl, result, vmStatus, service, clock, waitShape, config, reports, input, output,
                   engine, payload, inbound, response>>

\* A wait on the stop whose exception is swallowed: the start is issued anyway.
VmWaitStopIgnoringError(d) ==
    /\ pc[d] = "vm_wait_stop"
    /\ \E e \in wait_for_operation("stop", waitShape, ops[d].stop) :
          /\ Log(d, Call("wait_stop", "vm_restart", e, NoCeiling))
          /\ Goto(d, "vm_start")
    /\ UNCHANGED <<alert, readCeiling, tmpl, result, ops, vmStatus, service, clock,
                   waitShape, config, reports, input, output,
                   engine, payload, inbound, response>>

\* self.wait_for_operation(stop_operation, 'stop', client=compute_client, ...)
VmWaitStop(d) ==
    /\ pc[d] = "vm_wait_stop"
    /\ \E e \in wait_for_operation("stop", waitShape, ops[d].stop) :
          /\ Log(d, Call("wait_stop", "vm_restart", e, NoCeiling))
          /\ IF e = NoError THEN Goto(d, "vm_start") ELSE Return(d, restart_vm_except(e))
    /\ UNCHANGED <<alert, readCeiling, tmpl, result, ops, vmStatus, service, clock,
                   waitShape, config, reports, input, output,
                   engine, payload, inbound, response>>

\* compute_client.start(request=start_request)
VmStart(d) ==
    /\ pc[d] = "vm_start"
    /\ \/ /\ Log(d, Call("start", "vm_restart", NoError, NoCeiling))
          /\ ops' = [ops EXCEPT ![d].start = "RUNNING"]
          /\ Goto(d, "vm_wait_start")
       \/ /\ Log(d, Call("start", "vm_restart", <<"start", "call_error">>, NoCeiling))
          /\ Return(d, restart_vm_except(<<"start", "call_error">>))
          /\ UNCHANGED ops
    /\ UNCHANGED <<alert, readCeiling, tmpl, result, vmStatus, service, clock, waitShape, config, reports, input, output,
                   engine, payload, inbound, response>>

\* self.wait_for_operation(start_operation, 'start', ...) and the success return
VmWaitStart(d) ==
    /\ pc[d] = "vm_wait_start"
    /\ \E e \in wait_for_operation("start", waitShape, ops[d].start) :
          /\ Log(d, Call("wait_start", "vm_restart", e, NoCeiling))
          /\ IF e = NoError
             THEN Return(d, restart_vm_success)
             ELSE Return(d, restart_vm_except(e))
    /\ UNCHANGED <<alert, readCeiling, tmpl, result, ops, vmStatus, service, clock,
                   waitShape, config, reports, input, output,
                   engine, payload, inbound, response>>

\* --------------------------------------------------- scale_cloud_run_service
\* get_service, the computation of new_max_instances and the skipped return
ScaleGet(d) ==
    /\ pc[d] = "scale_get"
    /\ \/ /\ Log(d, Call("get_service", "cloud_run_scale", NoError,
                         service.template.max_instance_count))
          /\ readCeiling' = [readCeiling EXCEPT ![d] = service.template.max_instance_count]
          /\ IF ShouldScale(CurrentMaxInstances(service.template.max_instance_count))
             THEN Goto(d, "scale_update")
             ELSE Return(d, scale_skipped)
       \/ /\ Log(d, Call("get_service", "cloud_run_scale", <<"get_service", "call_error">>,
                         NoCeiling))
          /\ Return(d, scale_except(<<"get_service", "call_error">>))
          /\ UNCHANGED readCeiling
    /\ UNCHANGED <<alert, tmpl, result, ops, vmStatus, service, clock, waitShape, config, reports, input, output,
                   engine, payload, inbound, response>>

\* cloud_run_client.update_service(request=update_request)
ScaleUpdate(d) ==
    /\ pc[d] = "scale_update"
    /\ LET new_max == NewMaxInstances(CurrentMaxInstances(readCeiling[d])) IN
       \/ /\ Log(d, Call("update_service", "cloud_run_scale", NoError, new_max))
          /\ service' = UpdateService(service, ScaleRequest(new_max),
                                      "template.scaling.max_instance_count")
          /\ ops' = [ops EXCEPT ![d].scale = "RUNNING"]
          /\ Goto(d, "scale_wait")
       \/ /\ Log(d, Call("update_service", "cloud_run_scale",
                         <<"update_service", "call_error">>, new_max))
          /\ Return(d, scale_except(<<"update_service", "call_error">>))
          /\ UNCHANGED <<service, ops>>
    /\ UNCHANGED <<alert, readCeiling, tmpl, result, vmStatus, clock, waitShape, config, reports, input, output,
                   engine, payload, inbound, response>>

\* operation.result() and the success return
ScaleWait(d) ==
    /\ pc[d] = "scale_wait"
    /\ \E e \in OperationResult("update", ops[d].scale) :
          /\ Log(d, Call("result", "cloud_run_scale", e, NoCeiling))
          /\ IF e = NoError THEN Return(d, scale_success) ELSE Return(d, scale_except(e))
    /\ UNCHANGED <<alert, readCeiling, tmpl, result, ops, vmStatus, service, clock,
                   waitShape, config, reports, input, output,
                   engine, payload, inbound, response>>

\* ------------------------------------------------- restart_cloud_run_service
\* get_service and the RESTART_TIMESTAMP edit of the template it returned
RestartGet(d) ==
    /\ pc[d] = "restart_get"
    /\ \/ /\ Log(d, Call("get_service", "cloud_run_restart", NoError,
                         service.template.max_instance_count))
          /\ tmpl' = [tmpl EXCEPT ![d] =
                [service.template EXCEPT !.env = SetRestartTimestamp(@, clock)]]
          /\ clock' = clock + 1
          /\ Goto(d, "restart_update")
       \/ /\ Log(d, Call("get_service", "cloud_run_restart",
                         <<"get_service", "call_error">>, NoCeiling))
          /\ Return(d, restart_service_except(<<"get_service", "call_error">>))
          /\ UNCHANGED <<tmpl, clock>>
    /\ UNCHANGED <<alert, readCeiling, result, ops, vmStatus, service, waitShape, config, reports, input, output,
                   engine, payload, inbound, response>>

\* cloud_run_client.update_service(request=update_request), update_mask="template"
RestartUpdate(d) ==
    /\ pc[d] = "restart_update"
    /\ \/ /\ Log(d, Call("update_service", "cloud_run_restart", NoError,
                         tmpl[d].max_instance_count))
          /\ service' = UpdateService(service, RestartRequest(tmpl[d]), "template")
          /\ ops' = [ops EXCEPT ![d].restart = "RUNNING"]
          /\ Goto(d, "restart_wait")
       \/ /\ Log(d, Call("update_service", "cloud_run_restart",
                         <<"update_service", "call_error">>, tmpl[d].max_instance_count))
          /\ Return(d, restart_service_except(<<"update_service", "call_error">>))
          /\ UNCHANGED <<service, ops>>
    /\ UNCHANGED <<alert, readCeiling, tmpl, result, vmStatus, clock, waitShape, config, reports, input, output,
                   engine, payload, inbound, response>>

\* operation.result() and the success return
RestartWait(d) ==
    /\ pc[d] = "restart_wait"
    /\ \E e \in OperationResult("update", ops[d].restart) :
          /\ Log(d, Call("result", "cloud_run_restart", e, NoCeiling))
          /\ IF e = NoError
             THEN Return(d, restart_service_success)
             ELSE Return(d, restart_service_except(e))
    /\ UNCHANGED <<alert, readCeiling, tmpl, result, ops, vmStatus, service, clock,
                   waitShape, config, reports, input, output,
                   engine, payload, inbound, response>>

\* ------------------------------------------------------------ infrastructure
\* A running operation reaches a terminal state, with or without an error.
OperationCompletes(d, k, ok) ==
    /\ ops[d][k] = "RUNNING"
    /\ ops' = [ops EXCEPT ![d][k] = IF ok THEN "DONE" ELSE "ERROR"]
    /\ vmStatus' = IF ok /\ k = "stop" THEN "TERMINATED"
                   ELSE IF ok /\ k = "start" THEN "RUNNING"
                   ELSE vmStatus
    /\ UNCHANGED <<pc, alert, readCeiling, tmpl, calls, attempts, result, service, clock,
                   waitShape, config, reports, input, output,
                   engine, payload, inbound, response>>

OpKinds == {"stop", "start", "scale", "restart"}

\* ------------------------------------------------------------ specification
Step(d) ==
    \/ Deliver(d)
    \/ LogHealingAction(d)
    \/ VmStop(d)
    \/ VmWaitStop(d)
    \/ VmStart(d)
    \/ VmWaitStart(d)
    \/ ScaleGet(d)
    \/ ScaleUpdate(d)
    \/ ScaleWait(d)
    \/ RestartGet(d)
    \/ RestartUpdate(d)
    \/ RestartWait(d)
    \/ Report(d)

Infrastructure == \E d \in Deliveries, k \in OpKinds, ok \in BOOLEAN : OperationCompletes(d, k, ok)

Next ==
    \/ \E d \in Deliveries : Step(d)
    \/ Infrastructure

Spec == Init /\ [][Next]_vars

\* An invocation that can take a step takes it; nothing obliges an operation of
\* the infrastructure to ever complete.
Fairness == \A d \in Deliveries : WF_vars(Step(d))

FairSolo == InitSolo /\ [][Next]_vars /\ Fairness

\* One HTTP request or one cloud event, and the delivery it starts.
EntryNext ==
    \/ AutohealHttp
    \/ HttpReturn
    \/ AutohealFunction
    \/ FunctionReturn
    \/ \E d \in Deliveries : Step(d)
    \/ Infrastructure

EntryPoints == InitEntry /\ [][EntryNext]_vars

\* Deliveries on services that differ in their environment variables.
Restarts == InitRestarts /\ [][Next]_vars

\* A high CPU alert about a resource of type resource_type.
HighCpuOn(resource_type) ==
    Payload("dict", "str", CategoryName["high_cpu"], "dict", "str", resource_type, "dict",
            IF resource_type = "gce_instance" THEN "str" ELSE "absent",
            IF resource_type = "gce_instance" THEN "vm-1" ELSE "",
            IF resource_type = "gce_instance" THEN "absent" ELSE "str",
            IF resource_type = "gce_instance" THEN "" ELSE "svc-1")

\* Ceilings a service can have before the first invocation reads it.
ConcurrentCeilings == {1, 10, 40, 48, 50}

ConcurrentServices == { Service(c, e) : c \in ConcurrentCeilings, e \in InitEnvs }

\* Two or more of the invocations arrive.
Arrivals == { 1..n : n \in 2..MaxConcurrent }

\* High CPU alerts about one Cloud Run service, in flight at the same time.
InitScaling ==
    \E arriving \in Arrivals :
        InitOver(Concurrent, arriving, {HighCpuOn("cloud_run_revision")}, {DefaultConfig},
                 {NoInput}, {NoRequest}, ConcurrentServices, {"lro_result"})

\* handle_high_cpu on a Cloud Run service: scale_cloud_run_service and the report.
ScalingStep(d) ==
    \/ Deliver(d)
    \/ ScaleGet(d)
    \/ ScaleUpdate(d)
    \/ ScaleWait(d)
    \/ LogHealingAction(d)
    \/ Report(d)

ScalingNext ==
    \/ \E d \in Concurrent : ScalingStep(d)
    \/ \E d \in Concurrent, ok \in BOOLEAN : OperationCompletes(d, "scale", ok)

Scaling == InitScaling /\ [][ScalingNext]_vars

\* The Cloud Run service while only instances are acted on.
UntouchedServices == { Service(DEFAULT_MAX_INSTANCES, e) : e \in InitEnvs }

\* High CPU alerts about one Compute Engine instance, in flight at the same time.
InitVmRestarting ==
    \E arriving \in Arrivals :
        InitOver(Concurrent, arriving, {HighCpuOn("gce_instance")}, {DefaultConfig},
                 {NoInput}, {NoRequest}, UntouchedServices, WaitShapes)

\* handle_high_cpu on an instance: restart_vm_instance and the report.
VmRestartingStep(d) ==
    \/ Deliver(d)
    \/ VmStop(d)
    \/ VmWaitStop(d)
    \/ VmStart(d)
    \/ VmWaitStart(d)
    \/ LogHealingAction(d)
    \/ Report(d)

VmRestartingNext ==
    \/ \E d \in Concurrent : VmRestartingStep(d)
    \/ \E d \in Concurrent, k \in {"stop", "start"}, ok \in BOOLEAN : OperationCompletes(d, k, ok)

VmRestarting == InitVmRestarting /\ [][VmRestartingNext]_vars

\* One delivery, every configuration of the sinks.
Reporting == InitReporting /\ [][Next]_vars

\* classify_alert and extract_resource_info applied to one payload.
PureNext == ClassifyAlert \/ ExtractResourceInfo

Pure == InitPure /\ [][PureNext]_vars


\* ================================================================ properties
HandlerReturned(d) == pc[d] \in {"report", "notify", "done"} /\ attempts[d] # <<>>

CallsBy(d, action) == SelectSeq(calls[d], LAMBDA c : c.by = action)

CallNames(cs) == [k \in 1..Len(cs) |-> cs[k].call]

IsPrefix(s, t) == Len(s) <= Len(t) /\ \A k \in 1..Len(s) : s[k] = t[k]

RestartServicePcs == {"restart_get", "restart_update", "restart_wait"}

IsEscalationCase(d) ==
    alert[d].alert_type = "error_rate_spike" /\ alert[d].type = "cloud_run_revision"

\* C1: for an error_rate_spike alert on a cloud_run_revision the scale action is
\* invoked first; the restart action is invoked, and its outcome is the one
\* returned, exactly when the scale outcome's status is not 'success'; after a
\* successful scale no restart call is ever issued.
C1_ScaleThenRestartIffNotSuccess ==
    \A d \in Deliveries :
        IsEscalationCase(d) =>
            /\ calls[d] # <<>> => calls[d][1].by = "cloud_run_scale"
            /\ attempts[d] = <<>> => pc[d] \in {"scale_get", "scale_update", "scale_wait"}
            /\ attempts[d] # <<>> =>
                  /\ attempts[d][1].action = "cloud_run_scale"
                  /\ Len(attempts[d]) <= 2
                  /\ IF attempts[d][1].status = "success"
                     THEN /\ Len(attempts[d]) = 1
                          /\ HandlerReturned(d)
                          /\ CallsBy(d, "cloud_run_restart") = <<>>
                     ELSE /\ attempts[d][1].status \in {"failed", "skipped"}
                          /\ Len(attempts[d]) = 1 => pc[d] \in RestartServicePcs
                          /\ Len(attempts[d]) = 2 =>
                                /\ attempts[d][2].action = "cloud_run_restart"
                                /\ HandlerReturned(d)
                  /\ pc[d] = "done" =>
                        result[d].action_taken =
                            (IF attempts[d][1].status = "success"
                             THEN "cloud_run_scale" ELSE "cloud_run_restart")

C1_Witness ==
    \E d \in Deliveries :
        /\ IsEscalationCase(d)
        /\ pc[d] = "done"
        /\ Len(attempts[d]) = 2
        /\ attempts[d][1].status = "skipped"
        /\ result[d].action_taken = "cloud_run_restart"

\* The action a delivery selected first: the one its handler entered.
FirstAction(d) ==
    IF attempts[d] # <<>> THEN attempts[d][1].action
    ELSE IF pc[d] \in {"vm_stop", "vm_wait_stop", "vm_start", "vm_wait_start"} THEN "vm_restart"
    ELSE IF pc[d] \in {"scale_get", "scale_update", "scale_wait"} THEN "cloud_run_scale"
    ELSE IF pc[d] \in RestartServicePcs THEN "cloud_run_restart"
    ELSE "none"

DispatchTable ==
    [a \in AlertTypes |->
        CASE a = "high_cpu" ->
                [gce_instance |-> "vm_restart", cloud_run_revision |-> "cloud_run_scale",
                 other |-> "alert_only"]
          [] a = "service_down" ->
                [gce_instance |-> "vm_restart", cloud_run_revision |-> "cloud_run_restart",
                 other |-> "alert_only"]
          [] a = "memory_leak" ->
                [gce_instance |-> "vm_restart", cloud_run_revision |-> "cloud_run_restart",
                 other |-> "alert_only"]
          [] a = "error_rate_spike" ->
                [gce_instance |-> "vm_restart", cloud_run_revision |-> "cloud_run_scale",
                 other |-> "alert_only"]
          [] a = "unknown" ->
                [gce_instance |-> "alert_only", cloud_run_revision |-> "alert_only",
                 other |-> "alert_only"]]

\* C2: for every (alert type, resource type) pair the action process_alert
\* selects is the one the dispatch table gives.
C2_DispatchTable ==
    \A d \in Deliveries :
        (pc[d] \notin {"idle", "absent"} /\ alert[d] # NoAlert) =>
            FirstAction(d) = DispatchTable[alert[d].alert_type][alert[d].type]

C2_Witness ==
    \E d \in Deliveries :
        /\ alert[d] = [alert_type |-> "memory_leak", type |-> "cloud_run_revision"]
        /\ pc[d] = "done"
        /\ attempts[d][1].action = "cloud_run_restart"

VmEventOrder == <<"stop", "wait_stop", "start", "wait_start">>

\* C3: within one VM restart the events are stop call, wait on stop, start
\* call, wait on start, in that order; the start call is issued only after the
\* wait on the stop has returned without error, and never after a failed stop
\* call or a failed wait on the stop.
C3_VmRestartOrder ==
    \A d \in Deliveries :
        LET cs == CallsBy(d, "vm_restart") IN
        /\ IsPrefix(CallNames(cs), VmEventOrder)
        /\ \A k \in 1..Len(cs) :
              cs[k].call = "start" =>
                  /\ k = 3
                  /\ cs[1].error = NoError
                  /\ cs[2].error = NoError
        /\ (\E k \in 1..Len(cs) :
                cs[k].call \in {"stop", "wait_stop"} /\ cs[k].error # NoError)
              => /\ ops[d].start = "none"
                 /\ \A k \in 1..Len(cs) : cs[k].call # "start"
        /\ ops[d].start # "none" => Len(cs) >= 3

C3_Witness ==
    \E d \in Deliveries :
        /\ CallNames(CallsBy(d, "vm_restart")) = VmEventOrder
        /\ pc[d] = "done"

OpsOf(action) ==
    IF action = "vm_restart" THEN {"stop", "start"}
    ELSE IF action = "cloud_run_scale" THEN {"scale"}
    ELSE IF action = "cloud_run_restart" THEN {"restart"}
    ELSE {}

\* C5: in every state where an action has returned 'success', every operation
\* it issued has reached a terminal state.
C5_NoSuccessWhileInFlight ==
    \A d \in Deliveries :
        \A j \in 1..Len(attempts[d]) :
            attempts[d][j].status = "success" =>
                \A k \in OpsOf(attempts[d][j].action) : ops[d][k] \in {"DONE", "ERROR"}


\* C6: every invocation of process_alert eventually returns, whether or not
\* the operations it issued ever reach a terminal state.
C6_EveryInvocationReturns ==
    \A d \in Deliveries : (pc[d] \notin {"idle", "absent"}) ~> (pc[d] = "done")

\* C7: a call or wait that raises inside a remediation action ends that action
\* with an outcome of status 'failed' that carries the error and names the
\* action attempted; nothing propagates to process_alert, and an action
\* reports 'failed' only for such an error.
C7_FailuresBecomeFailedOutcomes ==
    \A d \in Deliveries :
        /\ \A k \in 1..Len(calls[d]) :
              calls[d][k].error # NoError =>
                  /\ \E j \in 1..Len(attempts[d]) :
                        attempts[d][j] = [action |-> calls[d][k].by, status |-> "failed",
                                          error |-> calls[d][k].error, reason |-> "none"]
                  /\ \A m \in (k + 1)..Len(calls[d]) : calls[d][m].by # calls[d][k].by
        /\ \A j \in 1..Len(attempts[d]) :
              attempts[d][j].status = "failed" =>
                  \E k \in 1..Len(calls[d]) :
                      /\ calls[d][k].by = attempts[d][j].action
                      /\ calls[d][k].error = attempts[d][j].error
                      /\ calls[d][k].error # NoError
        /\ result[d].status = "error" => calls[d] = <<>> /\ attempts[d] = <<>>

C7_Witness ==
    \E d \in Deliveries :
        /\ pc[d] = "done"
        /\ \E k \in 1..Len(calls[d]) :
              calls[d][k] = Call("result", "cloud_run_restart",
                                 <<"update", "operation_error">>, NoCeiling)
        /\ attempts[d][Len(attempts[d])].status = "failed"
        /\ result[d].status = "success"

ScaleUpdates(d) ==
    SelectSeq(calls[d], LAMBDA c : c.by = "cloud_run_scale" /\ c.call = "update_service")

AcceptedUpdates(d) ==
    SelectSeq(calls[d], LAMBDA c : c.call = "update_service" /\ c.error = NoError)

\* What C8 says of delivery d when the scale action takes current as the
\* current ceiling.
ScaleContract(d, current) ==
    LET new == IF current + SCALE_INCREMENT < SCALE_CAP
               THEN current + SCALE_INCREMENT ELSE SCALE_CAP
        ups == ScaleUpdates(d)
    IN  IF new <= current
        THEN /\ ups = <<>>
             /\ ops[d].scale = "none"
             /\ attempts[d] # <<>>
             /\ attempts[d][1].action = "cloud_run_scale"
             /\ attempts[d][1].status = "skipped"
        ELSE /\ Len(ups) <= 1
             /\ \A k \in 1..Len(ups) : ups[k].ceiling = new
             /\ pc[d] = "scale_wait" => Len(ups) = 1 /\ ups[1].error = NoError
             /\ (/\ Len(ups) = 1
                 /\ ups[1].error = NoError
                 /\ \A o \in Deliveries \ {d} : AcceptedUpdates(o) = <<>>)
                => service.template.max_instance_count = new
             /\ attempts[d] # <<>> =>
                   /\ attempts[d][1].action = "cloud_run_scale"
                   /\ Len(ups) = 1
                   /\ attempts[d][1].status \in {"success", "failed"}
                   /\ attempts[d][1].status = "success" <=>
                         (ups[1].error = NoError /\ ops[d].scale = "DONE")
                   /\ attempts[d][1].status = "failed" <=>
                         (ups[1].error # NoError \/ ops[d].scale = "ERROR")

\* C8 as stated: the new ceiling is min(ceiling read + 5, 50).
C8_NewCeilingFromCeilingRead ==
    \A d \in Deliveries :
        readCeiling[d] # NoCeiling => ScaleContract(d, readCeiling[d])

\* C8 (amended): the scale action takes as current the ceiling it read, or 10
\* when the ceiling it read is 0 (not set); new ceiling = min(current + 5, 50);
\* if new is not greater than current it returns 'skipped' without an update
\* call, otherwise it issues exactly one update carrying the new ceiling, waits
\* for it and returns 'success' if the update completed, 'failed' if not.
C8_NewCeilingFromCurrentOrDefault ==
    \A d \in Deliveries :
        readCeiling[d] # NoCeiling =>
            ScaleContract(d, IF readCeiling[d] = 0 THEN DEFAULT_MAX_INSTANCES
                             ELSE readCeiling[d])

C8_Witness ==
    \E d \in Deliveries :
        /\ readCeiling[d] = 10
        /\ ScaleUpdates(d) = <<Call("update_service", "cloud_run_scale", NoError, 15)>>
        /\ attempts[d] # <<>>
        /\ attempts[d][1].status = "success"
        /\ pc[d] = "done"

ScaleAttempted(d) == attempts[d] # <<>> /\ attempts[d][1].action = "cloud_run_scale"

C10_RestartKeepsCeilingAndTraffic ==
    [][\A d \in Deliveries :
          (pc[d] = "restart_update" /\ pc'[d] = "restart_wait") =>
              /\ service'.template.max_instance_count = service.template.max_instance_count
              /\ service'.traffic = service.traffic]_vars

\* ------------------------------------------------------------------- C11
\* text holds keyword when letter case is left out of account, position by
\* position.
NameHas(text, keyword) ==
    \E k \in 1..(Len(text) - Len(keyword) + 1) :
        \A j \in 1..Len(keyword) : LowerChar(text[k + j - 1]) = keyword[j]

PriorityCategory(text) ==
    IF NameHas(text, KW_CPU) THEN "high_cpu"
    ELSE IF NameHas(text, KW_ERROR) \/ NameHas(text, KW_5XX) THEN "error_rate_spike"
    ELSE IF NameHas(text, KW_MEMORY) THEN "memory_leak"
    ELSE IF NameHas(text, KW_UPTIME) \/ NameHas(text, KW_AVAILABILITY) THEN "service_down"
    ELSE "unknown"

NamedInput == input.incident = "dict" /\ input.cdn_kind = "str"

\* C11: for an alert whose condition display name is a string, classify_alert
\* returns the first category, in the order cpu, error or 5xx, memory, uptime or
\* availability, one of whose keywords the name holds in any letter case, and
\* unknown when it holds none; a name that holds cpu is high_cpu whatever else
\* it holds.
C11_ClassifyByPriority ==
    (NamedInput /\ output.classify.exc # NotCalled.exc) =>
        /\ output.classify.exc = NoError
        /\ output.classify.value = PriorityCategory(input.cdn)
        /\ NameHas(input.cdn, KW_CPU) => output.classify.value = "high_cpu"

\* A name holding Error and, in mixed case, CpU has been classified high_cpu.
C11_Witness ==
    /\ NamedInput
    /\ output.classify.exc = NoError
    /\ output.classify.value = "high_cpu"
    /\ NameHas(input.cdn, KW_ERROR)
    /\ ~Contains(input.cdn, KW_CPU)

\* ------------------------------------------------------------------- C12
ClassifyCalled == output.classify.exc # NotCalled.exc

\* The incident data is missing or malformed: no incident, an incident that is
\* null or no mapping, or a condition display name that is absent, null or no
\* string.
MalformedIncident ==
    \/ input.incident \in {"absent", "null", "scalar"}
    \/ input.cdn_kind \in {"absent", "null", "number"}

\* C12: classify_alert raises for no alert payload, and returns unknown for
\* every payload whose incident data is missing or malformed.
C12_ClassifyNeverRaises ==
    ClassifyCalled =>
        /\ output.classify.exc = NoError
        /\ MalformedIncident => output.classify.value = "unknown"

\* ------------------------------------------------------------------- C13
ExtractCalled == output.extract.exc # NotCalled.exc

\* A label that is present with a value that is neither null nor empty.
LabelGiven(kind, value) == kind = "str" /\ value # ""

FallbackName(p) ==
    IF LabelGiven(LabelKind(p, p.instance_name_kind), p.instance_name) THEN p.instance_name
    ELSE IF LabelGiven(LabelKind(p, p.service_name_kind), p.service_name) THEN p.service_name
    ELSE "unknown"

\* C13: the name extract_resource_info returns is never empty and never absent;
\* it is the instance_name label, else the service_name label, else unknown,
\* where a label with an empty or null value counts as not given.
C13_NameNeverEmpty ==
    (ExtractCalled /\ output.extract.exc = NoError) =>
        /\ output.extract.value.name \notin {"", PyNone}
        /\ output.extract.value.name = FallbackName(input)

\* ------------------------------------------------------------------- C14
\* The payloads the claim lists: incident, resource, type and labels each there
\* or missing, labels possibly null.
ListedPayload ==
    /\ input.incident \in {"absent", "dict"}
    /\ ResourceOf(input) = "dict"
    /\ ResourceMemberKind(input, input.type_kind) \in {"absent", "str"}

\* C14: extract_resource_info fails for no alert payload with missing incident,
\* resource or type or with missing or null labels; it returns type, name and
\* labels, a missing type as unknown and a missing name as unknown.
C14_ExtractNeverFails ==
    (ExtractCalled /\ ListedPayload) =>
        /\ output.extract.exc = NoError
        /\ ResourceMemberKind(input, input.type_kind) = "absent"
              => output.extract.value.type = "unknown"
        /\ (/\ LabelKind(input, input.instance_name_kind) = "absent"
            /\ LabelKind(input, input.service_name_kind) = "absent")
              => output.extract.value.name = "unknown"

\* ------------------------------------------------------------------- C15
\* C15: a delivery whose alert is classified unknown issues no infrastructure
\* call and no wait, and its one outcome, for a Compute Engine instance, a
\* Cloud Run revision and any other resource alike, is alert_only with a status
\* that is not failed.
C15_UnknownIsAlertOnly ==
    \A d \in Deliveries :
        alert[d].alert_type = "unknown" =>
            /\ calls[d] = <<>>
            /\ Len(attempts[d]) = 1
            /\ attempts[d][1].action = "alert_only"
            /\ attempts[d][1].status # "failed"
            /\ pc[d] \in {"report", "notify", "done"}
            /\ pc[d] = "done" => result[d].action_taken = "alert_only"

\* An unknown alert on a Cloud Run revision has been processed to the end.
C15_Witness ==
    \E d \in Deliveries :
        /\ alert[d] = [alert_type |-> "unknown", type |-> "cloud_run_revision"]
        /\ pc[d] = "done"
        /\ result[d].action_taken = "alert_only"
        /\ calls[d] = <<>>

\* ------------------------------------------------------------------- C16
ReportsOf(d, event) == SelectSeq(reports[d], LAMBDA r : r.event = event)

\* C16: every alert_only outcome carries a reason and is never failed, and
\* where its status is consumed it counts as skipped and not as a failure: the
\* log entry does not have severity ERROR, and the notification shows the
\* status Skipped and not the mark of a failure.
C16_AlertOnlyIsNoOp ==
    \A d \in Deliveries :
        (attempts[d] # <<>> /\ FinalOutcome(attempts[d]).action = "alert_only") =>
            /\ FinalOutcome(attempts[d]).reason # "none"
            /\ FinalOutcome(attempts[d]).status # "failed"
            /\ \A k \in 1..Len(reports[d]) :
                  /\ reports[d][k].event = "log" => reports[d][k].severity # "ERROR"
                  /\ reports[d][k].event = "notify" =>
                        /\ reports[d][k].status_emoji # "cross_mark"
                        /\ reports[d][k].status = "Skipped"

\* ------------------------------------------------------------------- C17
Actions == {"vm_restart", "cloud_run_scale", "cloud_run_restart", "alert_only"}

\* C17: process_alert returns one result and raises nothing: a delivery has a
\* result exactly when it has ended; an exception that left classification or
\* extraction gives status error with that exception and a timestamp and
\* nothing else; every other delivery gives status success with the alert
\* type, the resource, the action of the outcome and a timestamp.
C17_OneResultNeverRaises ==
    \A d \in Deliveries :
        /\ pc[d] # "done" => result[d] = NoResult
        /\ pc[d] = "done" =>
              \/ /\ result[d].status = "error"
                 /\ result[d].error # NoError
                 /\ result[d].timestamp > 0
                 /\ attempts[d] = <<>>
                 /\ result[d].action_taken = "none"
              \/ /\ result[d].status = "success"
                 /\ result[d].error = NoError
                 /\ result[d].timestamp > 0
                 /\ result[d].alert_type = alert[d].alert_type
                 /\ result[d].alert_type \in AlertTypes
                 /\ result[d].resource = alert[d].type
                 /\ result[d].action_taken \in Actions

\* classify_alert raised on a null incident and process_alert returned an error.
C17_Witness ==
    \E d \in Deliveries :
        /\ pc[d] = "done"
        /\ result[d].status = "error"
        /\ result[d].error = AttributeError("incident.get")

\* ------------------------------------------------------------------- C18
\* What process_alert returns for an alert and the outcomes of its remediation
\* attempts, sinks left out of account.
ResultFor(a, outcomes) ==
    [status |-> "success", alert_type |-> a.alert_type, resource |-> a.type,
     action_taken |-> outcomes[Len(outcomes)].action]

ResultFields(r) ==
    [status |-> r.status, alert_type |-> r.alert_type, resource |-> r.resource,
     action_taken |-> r.action_taken]

\* C18: status, alert_type, resource and action_taken of the result are fixed
\* by the alert and by the outcomes of the remediation attempts alone: they
\* are the same once the log entry is written, whether Slack and email are
\* configured or not and whether the Slack call and the email call went
\* through or failed, so two runs that differ in nothing else return equal
\* results.
C18_ResultIndependentOfSinks ==
    \A d \in Deliveries :
        (pc[d] = "done" /\ attempts[d] # <<>>) =>
            /\ ResultFields(result[d]) = ResultFor(alert[d], attempts[d])
            /\ Len(ReportsOf(d, "notify")) = 1

\* The Slack call and the email call both failed and the result is success.
C18_Witness ==
    \E d \in Deliveries :
        /\ pc[d] = "done"
        /\ result[d].status = "success"
        /\ Len(ReportsOf(d, "notify")) = 1
        /\ ReportsOf(d, "notify")[1].slack = "failed"
        /\ ReportsOf(d, "notify")[1].email = "failed"

\* ------------------------------------------------------------------- C19
\* C19: a delivery that produced an outcome, of whatever status, writes one log
\* entry and attempts one notification, both about its final outcome, the log
\* entry first: nothing is reported while a remediation attempt may still be
\* made, and the result is returned only when both are there.
C19_ReportedOnceBeforeReturn ==
    \A d \in Deliveries :
        /\ pc[d] \notin {"notify", "done"} => reports[d] = <<>>
        /\ pc[d] = "notify" =>
              /\ reports[d] = <<LogEntry(FinalOutcome(attempts[d]))>>
              /\ result[d] = NoResult
        /\ (pc[d] = "done" /\ attempts[d] # <<>>) =>
              /\ Len(reports[d]) = 2
              /\ reports[d][1] = LogEntry(FinalOutcome(attempts[d]))
              /\ reports[d][2].event = "notify"
              /\ reports[d][2].action = FinalOutcome(attempts[d]).action
              /\ reports[d][2].status = StatusShown(FinalOutcome(attempts[d]))

\* A failed VM restart has been logged and notified, and the result returned.
C19_Witness ==
    \E d \in Deliveries :
        /\ pc[d] = "done"
        /\ attempts[d] # <<>>
        /\ FinalOutcome(attempts[d]).status = "failed"
        /\ FinalOutcome(attempts[d]).action = "vm_restart"
        /\ Len(reports[d]) = 2
        /\ reports[d][1].event = "log"
        /\ reports[d][2].event = "notify"
        /\ reports[d][2].slack = "sent"

\* ------------------------------------------------------------------- C20
\* C20: one outcome for each alert reaches the reporter and the caller: when
\* handle_error_rate_spike made a second attempt after its scale attempt, the
\* log entry, the notification and action_taken of the result are those of
\* the second attempt, the Cloud Run restart, and none is that of the scale
\* attempt it replaced.
C20_SecondAttemptSupersedes ==
    \A d \in Deliveries :
        /\ Len(attempts[d]) <= 2
        /\ Len(ReportsOf(d, "log")) <= 1
        /\ Len(ReportsOf(d, "notify")) <= 1
        /\ Len(attempts[d]) = 2 =>
              /\ attempts[d][1].action = "cloud_run_scale"
              /\ attempts[d][2].action = "cloud_run_restart"
              /\ \A k \in 1..Len(reports[d]) : reports[d][k].action = "cloud_run_restart"
              /\ \A k \in 1..Len(reports[d]) :
                    reports[d][k].event = "log" =>
                        reports[d][k].status = attempts[d][2].status
              /\ pc[d] = "done" => result[d].action_taken = "cloud_run_restart"

\* The ceiling read was 50, the scale attempt was skipped, and the result of
\* the delivery names the restart.
C20_Witness ==
    \E d \in Deliveries :
        /\ pc[d] = "done"
        /\ readCeiling[d] = SCALE_CAP
        /\ Len(attempts[d]) = 2
        /\ attempts[d][1] = scale_skipped
        /\ result[d].action_taken = "cloud_run_restart"
        /\ Len(reports[d]) = 2

\* ------------------------------------------------------------------- C21
\* The invocations of remediation actions by a delivery, in order: each action
\* begins with its stop call or its get_service call.
Invocations(d) == SelectSeq(calls[d], LAMBDA c : c.call \in {"stop", "get_service"})

\* C21: a delivery invokes at most one remediation action, and two only for an
\* error_rate_spike on a Cloud Run revision, the scale and then the restart; no
\* action is invoked twice, and a failed VM restart or Cloud Run restart is
\* the last thing the delivery attempts.
C21_AtMostOneActionOrEscalation ==
    \A d \in Deliveries :
        /\ Len(Invocations(d)) <= 2
        /\ Len(attempts[d]) <= 2
        /\ Len(Invocations(d)) = 2 =>
              /\ alert[d] = [alert_type |-> "error_rate_spike", type |-> "cloud_run_revision"]
              /\ Invocations(d)[1].by = "cloud_run_scale"
              /\ Invocations(d)[2].by = "cloud_run_restart"
        /\ \A k \in 1..Len(attempts[d]) :
              (/\ attempts[d][k].status = "failed"
               /\ attempts[d][k].action \in {"vm_restart", "cloud_run_restart"}) =>
                  /\ k = Len(attempts[d])
                  /\ pc[d] \in {"report", "notify", "done"}
                  /\ calls[d][Len(calls[d])].by = attempts[d][k].action
                  /\ calls[d][Len(calls[d])].error = attempts[d][k].error

\* The scale failed, the restart was invoked and failed as well, and the
\* delivery ended after these two invocations.
C21_Witness ==
    \E d \in Deliveries :
        /\ pc[d] = "done"
        /\ Len(Invocations(d)) = 2
        /\ Len(attempts[d]) = 2
        /\ attempts[d][1].status = "failed"
        /\ attempts[d][2].status = "failed"

\* ------------------------------------------------------------------- C22
\* Delivery d ends its wait on operation k of its VM restart while the
\* operation is still running: the wait has run out of time.
WaitRunsOut(d, label, k) ==
    /\ pc[d] = label
    /\ ops[d][k] = "RUNNING"
    /\ pc'[d] # label

\* C22: a wait that runs out of time before the operation is over makes
\* wait_for_operation raise, and the action that waited returns 'failed' with
\* that error and issues no further call.
C22_TimeoutIsFailure ==
    [][\A d \in Deliveries :
          (WaitRunsOut(d, "vm_wait_stop", "stop") \/ WaitRunsOut(d, "vm_wait_start", "start")) =>
              /\ pc'[d] = "report"
              /\ calls'[d][Len(calls'[d])].error # NoError
              /\ attempts'[d] = <<restart_vm_except(calls'[d][Len(calls'[d])].error)>>]_vars

\* ------------------------------------------------------------------- C25
\* C25: a delivery whose classification, extraction and decision raised nothing
\* returns status 'success' whatever the status of its outcome, 'failed' and
\* 'skipped' included; the failure shows in the log entry and in the
\* notification only; a result of status 'error' comes from an exception alone,
\* with no outcome behind it.
C25_SuccessWhateverTheOutcome ==
    \A d \in Deliveries :
        pc[d] = "done" =>
            /\ attempts[d] # <<>> =>
                  /\ result[d].status = "success"
                  /\ result[d].error = NoError
                  /\ FinalOutcome(attempts[d]).status = "failed" =>
                        /\ reports[d][1].severity = "ERROR"
                        /\ reports[d][1].status = "failed"
                        /\ reports[d][2].status = "Failed"
            /\ result[d].status = "error" => attempts[d] = <<>> /\ reports[d] = <<>>

\* A Cloud Run scale that failed, behind a result of status 'success'.
C25_Witness ==
    \E d \in Deliveries :
        /\ pc[d] = "done"
        /\ alert[d].alert_type = "high_cpu"
        /\ attempts[d] = <<scale_except(<<"update_service", "call_error">>)>>
        /\ result[d].status = "success"
        /\ result[d].action_taken = "cloud_run_scale"

\* ------------------------------------------------------------------- C26
Delivered(d) == pc[d] \notin {"idle", "absent"}

\* C26: the engine carries nothing from one delivery to the next: the
\* recovery_actions mapping stays as __init__ made it, and the category, the
\* resource type and the action selected for a delivery are those its alert
\* gives on a new engine, whatever deliveries came before and however they
\* ended; two deliveries of the same alert are classified and dispatched alike.
C26_NoCrossInvocationState ==
    /\ engine = NewEngine
    /\ \A d \in Deliveries :
          Delivered(d) =>
              LET alert_type == classify_alert(payload[d])
                  resource_info == extract_resource_info(payload[d])
              IN  IF FirstException(alert_type, resource_info) = NoError
                  THEN /\ alert[d] = [alert_type |-> alert_type.value,
                                      type |-> resource_info.value.type]
                       /\ FirstAction(d) =
                             DispatchTable[alert_type.value][resource_info.value.type]
                  ELSE /\ alert[d] = NoAlert
                       /\ attempts[d] = <<>>
    /\ \A d, o \in Deliveries :
          (Delivered(d) /\ Delivered(o) /\ payload[d] = payload[o]) =>
              /\ alert[d] = alert[o]
              /\ FirstAction(d) = FirstAction(o)

\* One delivery of an alert has ended with a failed VM restart, and another
\* delivery of the same alert has been dispatched to the VM restart again.
C26_Witness ==
    \E d, o \in Deliveries :
        /\ d # o
        /\ pc[d] = "done"
        /\ attempts[d] = <<restart_vm_except(<<"stop", "call_error">>)>>
        /\ payload[o] = payload[d]
        /\ pc[o] = "vm_stop"
        /\ calls[o] = <<>>

\* ------------------------------------------------------------------- C27
SlackConfigured == config.SLACK_WEBHOOK_URL
EmailConfigured == config.SENDGRID_API_KEY /\ config.NOTIFICATION_EMAIL

\* C27: in every notification a sink is called exactly when it is configured;
\* the email sink, when configured, is tried also after the Slack call failed;
\* and whatever the sinks did, send_notification returned and the delivery
\* ended with status 'success'.
C27_SinksIndependentBestEffort ==
    \A d \in Deliveries :
        \A k \in 1..Len(reports[d]) :
            reports[d][k].event = "notify" =>
                /\ reports[d][k].slack = "not_called" <=> ~SlackConfigured
                /\ reports[d][k].email = "not_called" <=> ~EmailConfigured
                /\ reports[d][k].slack \in {"not_called", "sent", "failed"}
                /\ reports[d][k].email \in {"not_called", "sent", "failed"}
                /\ pc[d] = "done"
                /\ result[d].status = "success"

\* The Slack call failed and the email went out.
C27_Witness ==
    \E d \in Deliveries :
        /\ pc[d] = "done"
        /\ Len(reports[d]) = 2
        /\ reports[d][2].slack = "failed"
        /\ reports[d][2].email = "sent"
        /\ result[d].status = "success"

\* ------------------------------------------------------------------- C28
\* Delivery d leaves its wait on operation k with wait_for_operation having
\* returned normally.
WaitReturnsNormally(d, label, k) ==
    /\ pc[d] = label
    /\ pc'[d] # label
    /\ calls'[d][Len(calls'[d])].error = NoError

\* C28: wait_for_operation returns normally from the wait on a zone operation
\* only when the operation is done without error; when the wait ends with the
\* operation in error or not yet over it raises, and the VM restart is 'failed'.
C28_ZoneWaitChecksOutcome ==
    [][\A d \in Deliveries :
          /\ WaitReturnsNormally(d, "vm_wait_stop", "stop") => ops[d].stop = "DONE"
          /\ WaitReturnsNormally(d, "vm_wait_start", "start") => ops[d].start = "DONE"
          /\ (pc[d] = "vm_wait_start" /\ pc'[d] # pc[d] /\ ops[d].start # "DONE") =>
                FinalOutcome(attempts'[d]).status = "failed"]_vars

\* ------------------------------------------------------------------- C29
RestartTimestamps(env) == SelectSeq(env, LAMBDA v : v.name = "RESTART_TIMESTAMP")

OtherVariables(env) == SelectSeq(env, LAMBDA v : v.name # "RESTART_TIMESTAMP")

\* C29: on a service that starts with at most one RESTART_TIMESTAMP variable,
\* the environment a Cloud Run restart builds from the service it read, and
\* the environment each update puts on the service, hold exactly one
\* RESTART_TIMESTAMP variable, and the other variables are those that were
\* there, with their values and in their order, however many restarts ran.
C29_OneRestartTimestamp ==
    [][/\ \A d \in Deliveries :
             tmpl'[d] # tmpl[d] =>
                 /\ Len(RestartTimestamps(tmpl'[d].env)) = 1
                 /\ OtherVariables(tmpl'[d].env) = OtherVariables(service.template.env)
                 /\ Len(tmpl'[d].env) \in {Len(service.template.env),
                                           Len(service.template.env) + 1}
       /\ service'.template.env # service.template.env =>
             /\ Len(RestartTimestamps(service'.template.env)) = 1
             /\ OtherVariables(service'.template.env) = OtherVariables(service.template.env)
             /\ \E d \in Deliveries : service'.template.env = tmpl[d].env]_vars

\* Two restarts ran one after the other on a service that had no
\* RESTART_TIMESTAMP: the second replaced the time the first had set.
C29_Witness ==
    \E d, o \in Deliveries :
        /\ d # o
        /\ pc[d] = "done" /\ pc[o] = "done"
        /\ tmpl[d].env = <<[name |-> "APP_MODE", value |-> 0],
                           [name |-> "RESTART_TIMESTAMP", value |-> 1]>>
        /\ tmpl[o].env = <<[name |-> "APP_MODE", value |-> 0],
                           [name |-> "RESTART_TIMESTAMP", value |-> 2]>>
        /\ service.template.env = tmpl[o].env

\* ------------------------------------------------------------------- C23
\* Nothing has been processed, called, logged, notified or changed.
NoSideEffects ==
    /\ \A d \in Deliveries :
          /\ pc[d] = "absent"
          /\ alert[d] = NoAlert
          /\ calls[d] = <<>>
          /\ attempts[d] = <<>>
          /\ reports[d] = <<>>
          /\ result[d] = NoResult
          /\ ops[d] = NoOps
    /\ vmStatus = "RUNNING"
    /\ service \in InitServices

\* C23: an HTTP GET is answered with status 200 and the health body, whatever
\* its body and content type, and has no side effect: process_alert is not
\* called and no infrastructure call, log entry or notification is made.
C23_GetIsHealthCheckOnly ==
    (inbound.entry = "http" /\ inbound.method = "GET") =>
        /\ NoSideEffects
        /\ response \in {NoResponse, Response(200, "healthy", NoError)}

\* A GET that carried an alert as its JSON body has been answered.
C23_Witness ==
    /\ inbound.entry = "http"
    /\ inbound.method = "GET"
    /\ inbound.body = "json"
    /\ inbound.json_content_type
    /\ response = Response(200, "healthy", NoError)

\* ------------------------------------------------------------------- C24
Answered == response # NoResponse

\* C24: the HTTP surface answers 400 exactly for a POST whose body is missing
\* or is no JSON, without processing anything; 405 exactly for a method that
\* is neither GET nor POST; and 200 with a status member in the body in every
\* other case, an alert whose processing ended in an error result included; no
\* other status code is returned.
C24_HttpStatusCodes ==
    (inbound.entry = "http" /\ Answered) =>
        /\ response.code \in {200, 400, 405}
        /\ response.code = 400 <=>
              (inbound.method = "POST" /\ inbound.body \in {"missing", "unparseable"})
        /\ response.code = 400 => NoSideEffects
        /\ response.code = 405 <=> inbound.method \notin {"GET", "POST"}
        /\ response.code = 200 => response.status \in {"healthy", "success", "error"}

\* ------------------------------------------------------------------- C30
\* C30: autoheal_function raises nothing and calls process_alert at most once:
\* an alert in a base64 'data' member or an alert given as it is reaches
\* process_alert unchanged and the result of process_alert is returned; data
\* that cannot be decoded or parsed gives a result of status 'error' at once,
\* with no classification, remediation, log entry or notification.
C30_EventEntryPoint ==
    inbound.entry = "event" =>
        /\ \A d \in Deliveries \ {EntryDelivery} : pc[d] = "absent"
        /\ inbound.body \in {"no_event_data", "bad_base64", "bad_utf8", "bad_json"} =>
              /\ NoSideEffects
              /\ payload[EntryDelivery] = NoInput
              /\ Answered => response.status = "error" /\ response.error # NoError
        /\ inbound.body \in {"base64_json", "structured"} =>
              /\ pc[EntryDelivery] # "absent" => payload[EntryDelivery] = inbound.alert
              /\ Answered =>
                    /\ pc[EntryDelivery] = "done"
                    /\ response.status = result[EntryDelivery].status
                    /\ response.error = result[EntryDelivery].error
                    /\ response.status \in {"success", "error"}

\* Data that is base64 but no JSON has been answered with an error result.
C30_Witness ==
    /\ inbound.entry = "event"
    /\ inbound.body = "bad_json"
    /\ response = Response(NoCode, "error", <<"json.loads", "JSONDecodeError">>)

\* ------------------------------------------------- concurrent invocations
\* The scaling ceiling of the service.
Ceiling == service.template.max_instance_count

\* update_service of delivery d's scale is accepted in this step.
ScaleWrites(d) == pc[d] = "scale_update" /\ pc'[d] = "scale_wait"

Arrived == { d \in Concurrent : pc[d] # "absent" }

\* C31 (as stated): with concurrent ServiceScale invocations on a service whose
\* ceiling starts between 1 and 50, no step takes the ceiling above 50, no step
\* lowers it, and every accepted scale update writes more than the invocation read.
C31_CeilingNeverDecreases ==
    [][/\ Ceiling' <= SCALE_CAP
       /\ Ceiling' >= Ceiling
       /\ \A d \in Concurrent : ScaleWrites(d) => Ceiling' > readCeiling[d]]_vars

\* C31 (amended): the ceiling never exceeds 50; it changes only by a scale
\* update, which writes more than the invocation read and at most 5 more; with
\* at most two invocations it never decreases (with three, a stale update can
\* lower it).
C31_CeilingBoundedAboveRead ==
    [][/\ Ceiling' <= SCALE_CAP
       /\ Ceiling' # Ceiling => \E d \in Concurrent : ScaleWrites(d)
       /\ \A d \in Concurrent :
             ScaleWrites(d) => /\ Ceiling' > readCeiling[d]
                               /\ Ceiling' <= readCeiling[d] + SCALE_INCREMENT
       /\ Cardinality(Arrived) <= 2 => Ceiling' >= Ceiling]_vars

\* Three invocations have updated the service, two of them from the same read,
\* and the ceiling is below what one of them wrote.
C31_Witness ==
    /\ \A d \in 1..3 : Len(AcceptedUpdates(d)) = 1 /\ pc[d] = "done"
    /\ \E d, o \in 1..3 : d # o /\ readCeiling[d] = readCeiling[o]
    /\ \E d \in 1..3 : Ceiling < AcceptedUpdates(d)[1].ceiling

\* Delivery d ran restart_vm_instance to its end with nothing raised: stop,
\* wait, start and wait were called, and the stop and the start it issued are
\* DONE.
RestartedWithoutFailure(d) ==
    /\ Len(calls[d]) = 4
    /\ \A k \in 1..4 : calls[d][k].by = "vm_restart" /\ calls[d][k].error = NoError
    /\ ops[d].stop = "DONE"
    /\ ops[d].start = "DONE"

\* C32: once all concurrent VmRestart invocations on the instance have returned,
\* with every stop, start and wait of theirs having succeeded, the instance is
\* running and every invocation has returned status 'success'.
C32_ConcurrentRestartsLeaveVmRunning ==
    (\A d \in Arrived : pc[d] = "done" /\ RestartedWithoutFailure(d))
    => /\ vmStatus = "RUNNING"
       /\ \A d \in Arrived : /\ FinalOutcome(attempts[d]).status = "success"
                             /\ result[d].status = "success"

============================================================================
